---- MODULE Spec2Model ----
(***************************************************************************)
(* A model of src/app.py, the climate-negotiation translator:              *)
(*   - the translation memory (update_translation_memory,                  *)
(*     get_from_translation_memory, the sidebar's clear button),           *)
(*   - translate_with_context around the external translation call,        *)
(*   - TranslationQuality.validate_translation,                            *)
(*   - get_word_diffs (re.findall tokenizer + difflib.SequenceMatcher).    *)
(*                                                                         *)
(* A Python str is a sequence of characters; a character is a one-element  *)
(* string ("a", " ") or, for a non-ASCII character, its code point name    *)
(* ("U+00E5").                                                             *)
(***************************************************************************)
EXTENDS Integers, Sequences, FiniteSets, TLC

(***************************************************************************)
(* Bounds of the model.                                                    *)
(***************************************************************************)
\* number of operations of one session (every operation reads the clock)
MaxClock == 3

(***************************************************************************)
(* Characters and the str methods the program uses.                        *)
(***************************************************************************)
\* the characters str.strip(), str.split() and the regex class \s treat as space
Whitespace == {" ", "\n", "\t"}

\* str.lower() on one character
LowerChar(c) ==
  CASE c = "A" -> "a"
    [] c = "B" -> "b"
    [] c = "C" -> "c"
    [] c = "K" -> "k"
    [] c = "U+00C6" -> "U+00E6"
    [] c = "U+00D8" -> "U+00F8"
    [] c = "U+00C5" -> "U+00E5"
    [] c = "U+00DC" -> "U+00FC"
    [] c = "U+00D6" -> "U+00F6"
    [] OTHER -> c

\* str.lower()
Lower(s) == [i \in 1..Len(s) |-> LowerChar(s[i])]

\* str.strip(): drop the leading and the trailing whitespace
RECURSIVE LStrip(_)
LStrip(s) ==
  IF s # <<>> /\ Head(s) \in Whitespace THEN LStrip(Tail(s)) ELSE s

RECURSIVE RStrip(_)
RStrip(s) ==
  IF s # <<>> /\ s[Len(s)] \in Whitespace
  THEN RStrip(SubSeq(s, 1, Len(s) - 1))
  ELSE s

Strip(s) == RStrip(LStrip(s))

\* the strings over alphabet of at most n characters
StringsUpTo(alphabet, n) == UNION {[1..k -> alphabet] : k \in 0..n}

\* Optional[str]: Python's None, or a str
None == [some |-> FALSE, val |-> <<>>]
Some(s) == [some |-> TRUE, val |-> s]

(***************************************************************************)
(* Direction tags, as the UI passes them (src/app.py:364).                 *)
(***************************************************************************)
NoToEn == <<"n", "o", "-", "t", "o", "-", "e", "n">>
EnToNo == <<"e", "n", "-", "t", "o", "-", "n", "o">>
Directions == {NoToEn, EnToNo}

(***************************************************************************)
(* TranslationQuality (src/app.py:37-107).                                 *)
(***************************************************************************)
\* REFERENCE_SITES, by index
ReferenceSites == <<"miljodirektoratet.no", "ipcc.ch/glossary", "unfccc.int/glossary">>

\* self.technical_terms, in the dict's insertion order
technical_terms == <<
  [term |-> <<"k", "l", "i", "m", "a", "e", "n", "d", "r", "i", "n", "g", "e", "r">>,
   english |-> <<"c", "l", "i", "m", "a", "t", "e", " ", "c", "h", "a", "n", "g", "e">>,
   source |-> "Miljodirektoratet", reference |-> ReferenceSites[1]],
  [term |-> <<"k", "l", "i", "m", "a", "t", "i", "l", "p", "a", "s", "n", "i", "n", "g">>,
   english |-> <<"c", "l", "i", "m", "a", "t", "e", " ", "a", "d", "a", "p", "t", "a", "t", "i", "o", "n">>,
   source |-> "IPCC", reference |-> ReferenceSites[2]],
  [term |-> <<"u", "t", "s", "l", "i", "p", "p", "s", "r", "e", "d", "u", "k", "s", "j", "o", "n">>,
   english |-> <<"e", "m", "i", "s", "s", "i", "o", "n", " ", "r", "e", "d", "u", "c", "t", "i", "o", "n">>,
   source |-> "Miljodirektoratet", reference |-> ReferenceSites[1]],
  [term |-> <<"k", "l", "i", "m", "a", "f", "i", "n", "a", "n", "s", "i", "e", "r", "i", "n", "g">>,
   english |-> <<"c", "l", "i", "m", "a", "t", "e", " ", "f", "i", "n", "a", "n", "c", "e">>,
   source |-> "UNFCCC", reference |-> ReferenceSites[3]],
  [term |-> <<"k", "a", "r", "b", "o", "n", "b", "u", "d", "s", "j", "e", "t", "t">>,
   english |-> <<"c", "a", "r", "b", "o", "n", " ", "b", "u", "d", "g", "e", "t">>,
   source |-> "IPCC", reference |-> ReferenceSites[2]] >>

\* norwegian_chars, the characters of the literal as the file stores it:
\* U+221A U+00B6 U+221A U+220F U+221A U+2022 U+221A U+00DC U+221A U+00F2
\* U+221A U+00D6
norwegian_chars ==
  {"U+221A", "U+00B6", "U+220F", "U+2022", "U+00DC", "U+00F2", "U+00D6"}

\* needle in hay (substring test of str)
Contains(needle, hay) ==
  \E i \in 0..(Len(hay) - Len(needle)) :
     SubSeq(hay, i + 1, i + Len(needle)) = needle

\* len(s.split()): the number of maximal runs of non-whitespace
WordCount(s) ==
  Cardinality({i \in 1..Len(s) :
                 /\ s[i] \notin Whitespace
                 /\ (i = 1 \/ s[i - 1] \in Whitespace)})

TermIssue(details) ==
  [type |-> "technical_term", severity |-> "high",
   message |-> <<"might not be correctly translated", details.term, details.english>>,
   source |-> details.source, reference |-> details.reference]

TooShortIssue ==
  [type |-> "formatting", severity |-> "medium",
   message |-> <<"Translation appears too short">>,
   source |-> "absent", reference |-> "absent"]

NorwegianCharsIssue ==
  [type |-> "formatting", severity |-> "high",
   message |-> <<"Some Norwegian characters remain in the translation">>,
   source |-> "absent", reference |-> "absent"]

\* the loop over self.technical_terms.items(), from entry n on
RECURSIVE TermChecks(_, _, _)
TermChecks(original, translated, n) ==
  IF n > Len(technical_terms) THEN <<>>
  ELSE LET details == technical_terms[n]
           hit == /\ Contains(Lower(details.term), Lower(original))
                  /\ ~Contains(Lower(details.english), Lower(translated))
       IN (IF hit THEN <<TermIssue(details)>> ELSE <<>>)
            \o TermChecks(original, translated, n + 1)

\* the length test: len(translated.split()) < len(original.split()) * 0.5
TooShort(original, translated) ==
  2 * WordCount(translated) < WordCount(original)

\* any(char in translated for char in norwegian_chars)
HasNorwegianChars(translated) ==
  \E i \in 1..Len(translated) : translated[i] \in norwegian_chars

validate_translation(original, translated, direction) ==
  LET issues1 == IF direction = NoToEn
                 THEN TermChecks(original, translated, 1)
                 ELSE <<>>
      issues2 == IF TooShort(original, translated)
                 THEN Append(issues1, TooShortIssue)
                 ELSE issues1
      issues3 == IF direction = NoToEn /\ HasNorwegianChars(translated)
                 THEN Append(issues2, NorwegianCharsIssue)
                 ELSE issues2
  IN issues3

(***************************************************************************)
(* The translation memory, st.session_state.translation_memory: a dict     *)
(* from key to {'translation', 'timestamp', 'direction'}                   *)
(* (src/app.py:24-25, 148-163).                                            *)
(***************************************************************************)
\* the key without the strip()
MemoryKeyNoStrip(text, direction) == Lower(text) \o <<"_">> \o direction

\* f"{text.strip().lower()}_{direction}"
MemoryKey(text, direction) == Lower(Strip(text)) \o <<"_">> \o direction

\* last-write-wins: the entry is written whether or not the key is present
update_translation_memory_overwrite(memory, original, translated, direction, now) ==
  LET key == Lower(Strip(original)) \o <<"_">> \o direction
      entry == [translation |-> translated, timestamp |-> now,
                direction |-> direction]
  IN [memory |-> [k \in DOMAIN memory \cup {key} |->
                    IF k = key THEN entry ELSE memory[k]],
      ret |-> "None"]

\* a variant that returns whether it inserted
update_translation_memory_bool(memory, original, translated, direction, now) ==
  LET key == Lower(Strip(original)) \o <<"_">> \o direction
      entry == [translation |-> translated, timestamp |-> now,
                direction |-> direction]
  IN [memory |-> IF key \notin DOMAIN memory
                 THEN [k \in DOMAIN memory \cup {key} |->
                         IF k = key THEN entry ELSE memory[k]]
                 ELSE memory,
      ret |-> IF key \notin DOMAIN memory THEN "True" ELSE "False"]

\* update_translation_memory; now is the reading of datetime.now().
\* Gives the dict afterwards and the value the function returns.
update_translation_memory(memory, original, translated, direction, now) ==
  LET key == MemoryKey(original, direction)
      entry == [translation |-> translated, timestamp |-> now,
                direction |-> direction]
  IN [memory |-> IF key \notin DOMAIN memory
                 THEN [k \in DOMAIN memory \cup {key} |->
                         IF k = key THEN entry ELSE memory[k]]
                 ELSE memory,
      ret |-> "None"]

get_from_translation_memory(memory, text, direction) ==
  LET key == MemoryKey(text, direction)
  IN IF key \in DOMAIN memory THEN Some(memory[key].translation) ELSE None

(***************************************************************************)
(* translate_with_context (src/app.py:165-266).  api is what               *)
(* requests.post does: it raises, or it answers with a status and a body;  *)
(* the body of a 200 answer either holds result["content"][0]["text"] as a *)
(* str or does not (response.json(), the subscripts or the validation of a *)
(* non-str then raise inside the try).                                     *)
(***************************************************************************)
NoResponse ==
  [status_code |-> 0, content |-> None, validation |-> None, error |-> None]

\* an error path that drops the memory and posts again
error_response_retry(memory, code, prefix, detail) ==
  [memory |-> <<>>, posts |-> 2,
   response |-> [status_code |-> code, content |-> None, validation |-> None,
                 error |-> Some(<<prefix, detail>>)]]

\* the two returns of an error (src/app.py:257-266) after the one
\* requests.post: the memory is not touched
error_response(memory, code, prefix, detail) ==
  [memory |-> memory, posts |-> 1,
   response |-> [status_code |-> code, content |-> None, validation |-> None,
                 error |-> Some(<<prefix, detail>>)]]

translate_with_context(memory, text, direction, api, now) ==
  LET cached_translation == get_from_translation_memory(memory, text, direction)
      failed(code, prefix) == error_response(memory, code, prefix, api.detail)
  IN IF cached_translation.some /\ cached_translation.val # <<>>
     THEN [memory |-> memory, posts |-> 0,
           response |-> [status_code |-> 200, content |-> cached_translation,
                         validation |-> None, error |-> None]]
     ELSE IF api.kind = "raise" THEN failed(500, "Translation error: ")
     ELSE IF api.status # 200 THEN failed(api.status, "API error: ")
     ELSE IF ~api.body.some THEN failed(500, "Translation error: ")
     ELSE LET translated_text == api.body.val
              validation_results ==
                validate_translation(text, translated_text, direction)
              updated == update_translation_memory(memory, text, translated_text,
                                                   direction, now)
          IN [memory |-> updated.memory, posts |-> 1,
              response |-> [status_code |-> 200,
                            content |-> Some(translated_text),
                            validation |-> Some(validation_results),
                            error |-> None]]

(***************************************************************************)
(* get_word_diffs (src/app.py:111-146).  Positions are Python's: a[i] of   *)
(* the code is At(a, i), a[i:j] is Slice(a, i, j).                         *)
(***************************************************************************)
At(s, i) == s[i + 1]
Slice(s, i, j) == SubSeq(s, i + 1, j)

\* ' '.join(words): a separator between the words
RECURSIVE JoinWithSpaces(_)
JoinWithSpaces(words) ==
  IF words = <<>> THEN <<>>
  ELSE IF Len(words) = 1 THEN Head(words)
  ELSE Head(words) \o <<" ">> \o JoinWithSpaces(Tail(words))

\* ''.join(words)
RECURSIVE Join(_)
Join(words) == IF words = <<>> THEN <<>> ELSE Head(words) \o Join(Tail(words))

\* the length of the run of characters of the class of text[1] text starts with
FirstRun(text) ==
  LET space(i) == text[i] \in Whitespace
  IN CHOOSE n \in 1..Len(text) :
        /\ \A i \in 1..n : space(i) = space(1)
        /\ n = Len(text) \/ space(n + 1) # space(1)

\* text.split(): the runs of non-space only, the whitespace dropped
RECURSIVE split_on_whitespace(_)
split_on_whitespace(text) ==
  IF text = <<>> THEN <<>>
  ELSE LET n == FirstRun(text)
       IN (IF Head(text) \in Whitespace THEN <<>> ELSE <<SubSeq(text, 1, n)>>)
            \o split_on_whitespace(SubSeq(text, n + 1, Len(text)))

\* re.findall(r'\S+|\s+', text): the maximal runs of non-space and of space
RECURSIVE split_into_words(_)
split_into_words(text) ==
  IF text = <<>> THEN <<>>
  ELSE LET n == FirstRun(text)
       IN <<SubSeq(text, 1, n)>>
            \o split_into_words(SubSeq(text, n + 1, Len(text)))

\* SequenceMatcher(None, a, b): isjunk is None, autojunk is on.  The elements
\* of b that __chain_b drops from b2j as popular: when b has 200 elements or
\* more, those that occur more than len(b) // 100 + 1 times.
bpopular(b) ==
  IF Len(b) >= 200
  THEN {b[x] : x \in {y \in 1..Len(b) :
           Cardinality({z \in 1..Len(b) : b[z] = b[y]}) > (Len(b) \div 100) + 1}}
  ELSE {}

\* the first while loop after the search: take up equal elements before the block
RECURSIVE ExtendBack(_, _, _, _, _)
ExtendBack(a, b, alo, blo, m) ==
  IF m[1] > alo /\ m[2] > blo /\ At(a, m[1] - 1) = At(b, m[2] - 1)
  THEN ExtendBack(a, b, alo, blo, <<m[1] - 1, m[2] - 1, m[3] + 1>>)
  ELSE m

\* the second while loop: take up equal elements after the block
RECURSIVE ExtendForward(_, _, _, _, _)
ExtendForward(a, b, ahi, bhi, m) ==
  IF m[1] + m[3] < ahi /\ m[2] + m[3] < bhi
       /\ At(a, m[1] + m[3]) = At(b, m[2] + m[3])
  THEN ExtendForward(a, b, ahi, bhi, <<m[1], m[2], m[3] + 1>>)
  ELSE m

\* a search that keeps the first block it meets instead of the longest: the
\* one that starts earliest in a and, of those, earliest in b
find_first_match(a, b, alo, ahi, blo, bhi) ==
  LET popular == bpopular(b)
      starts ==
        {m \in (alo..(ahi - 1)) \X (blo..(bhi - 1)) \X {1} :
           At(a, m[1]) = At(b, m[2]) /\ At(b, m[2]) \notin popular}
      first_a == {m \in starts : \A n \in starts : m[1] <= n[1]}
      best == IF starts = {} THEN <<alo, blo, 0>>
              ELSE CHOOSE m \in first_a : \A n \in first_a : m[2] <= n[2]
  IN ExtendForward(a, b, ahi, bhi, ExtendBack(a, b, alo, blo, best))

\* SequenceMatcher.find_longest_match(alo, ahi, blo, bhi): <<i, j, k>>.
\* The search keeps the first block, in the order of its loops (i ascending,
\* then j ascending), that is longer than every block before it: of the
\* longest blocks of elements in b2j, the one that starts earliest in a and,
\* of those, earliest in b; <<alo, blo, 0>> when there is none.  No element is
\* junk, so the two loops over junk take up nothing.
find_longest_match(a, b, alo, ahi, blo, bhi) ==
  LET popular == bpopular(b)
      IsBlock(i, j, k) ==
        \A t \in 0..(k - 1) :
           At(a, i + t) = At(b, j + t) /\ At(b, j + t) \notin popular
      blocks ==
        {m \in (alo..(ahi - 1)) \X (blo..(bhi - 1)) \X (1..(ahi - alo)) :
           m[1] + m[3] <= ahi /\ m[2] + m[3] <= bhi /\ IsBlock(m[1], m[2], m[3])}
      longest == {m \in blocks : \A n \in blocks : n[3] <= m[3]}
      first_a == {m \in longest : \A n \in longest : m[1] <= n[1]}
      best == IF blocks = {} THEN <<alo, blo, 0>>
              ELSE CHOOSE m \in first_a : \A n \in first_a : m[2] <= n[2]
  IN ExtendForward(a, b, ahi, bhi, ExtendBack(a, b, alo, blo, best))

\* the queue loop of get_matching_blocks: the blocks found in a[alo:ahi] and
\* b[blo:bhi], the longest first and then those to its left and to its right
RECURSIVE FindBlocks(_, _, _, _, _, _)
FindBlocks(a, b, alo, ahi, blo, bhi) ==
  LET x == find_longest_match(a, b, alo, ahi, blo, bhi)
      i == x[1]
      j == x[2]
      k == x[3]
  IN IF k = 0 THEN {}
     ELSE {x}
          \cup (IF alo < i /\ blo < j
                THEN FindBlocks(a, b, alo, i, blo, j) ELSE {})
          \cup (IF i + k < ahi /\ j + k < bhi
                THEN FindBlocks(a, b, i + k, ahi, j + k, bhi) ELSE {})

\* tuple order of (i, j, k), as list.sort() compares
TupleLess(m, n) ==
  \/ m[1] < n[1]
  \/ m[1] = n[1] /\ m[2] < n[2]
  \/ m[1] = n[1] /\ m[2] = n[2] /\ m[3] < n[3]

\* matching_blocks.sort()
RECURSIVE SortBlocks(_)
SortBlocks(S) ==
  IF S = {} THEN <<>>
  ELSE LET m == CHOOSE x \in S : \A y \in S \ {x} : TupleLess(x, y)
       IN <<m>> \o SortBlocks(S \ {m})

\* the loop that collapses adjacent blocks: cur is (i1, j1, k1)
RECURSIVE Collapse(_, _)
Collapse(blocks, cur) ==
  IF blocks = <<>>
  THEN IF cur[3] # 0 THEN <<cur>> ELSE <<>>
  ELSE LET nxt == Head(blocks)
       IN IF cur[1] + cur[3] = nxt[1] /\ cur[2] + cur[3] = nxt[2]
          THEN Collapse(Tail(blocks), <<cur[1], cur[2], cur[3] + nxt[3]>>)
          ELSE (IF cur[3] # 0 THEN <<cur>> ELSE <<>>)
                 \o Collapse(Tail(blocks), nxt)

\* SequenceMatcher.get_matching_blocks(), with the (la, lb, 0) sentinel
get_matching_blocks(a, b) ==
  Append(Collapse(SortBlocks(FindBlocks(a, b, 0, Len(a), 0, Len(b))),
                  <<0, 0, 0>>),
         <<Len(a), Len(b), 0>>)

\* the loop of get_opcodes over the matching blocks, from (i, j) on:
\* (tag, i1, i2, j1, j2)
RECURSIVE OpcodesFrom(_, _, _)
OpcodesFrom(blocks, i, j) ==
  IF blocks = <<>> THEN <<>>
  ELSE LET ai == Head(blocks)[1]
           bj == Head(blocks)[2]
           size == Head(blocks)[3]
           tag == IF i < ai /\ j < bj THEN "replace"
                  ELSE IF i < ai THEN "delete"
                  ELSE IF j < bj THEN "insert"
                  ELSE ""
       IN (IF tag # "" THEN <<<<tag, i, ai, j, bj>>>> ELSE <<>>)
            \o (IF size # 0
                THEN <<<<"equal", ai, ai + size, bj, bj + size>>>> ELSE <<>>)
            \o OpcodesFrom(Tail(blocks), ai + size, bj + size)

\* get_opcodes without its "if size:" test: an equal opcode for every
\* matching block, the empty sentinel included
RECURSIVE OpcodesFromNoSizeTest(_, _, _)
OpcodesFromNoSizeTest(blocks, i, j) ==
  IF blocks = <<>> THEN <<>>
  ELSE LET ai == Head(blocks)[1]
           bj == Head(blocks)[2]
           size == Head(blocks)[3]
           tag == IF i < ai /\ j < bj THEN "replace"
                  ELSE IF i < ai THEN "delete"
                  ELSE IF j < bj THEN "insert"
                  ELSE ""
       IN (IF tag # "" THEN <<<<tag, i, ai, j, bj>>>> ELSE <<>>)
            \o <<<<"equal", ai, ai + size, bj, bj + size>>>>
            \o OpcodesFromNoSizeTest(Tail(blocks), ai + size, bj + size)

get_opcodes_no_size_test(a, b) ==
  OpcodesFromNoSizeTest(get_matching_blocks(a, b), 0, 0)

\* SequenceMatcher.get_opcodes()
get_opcodes(a, b) == OpcodesFrom(get_matching_blocks(a, b), 0, 0)

\* the dicts with the insertion's 'original' filled from the suggested words
ChangeInsertionKeepsText(original_words, suggested_words, opcode) ==
  LET tag == opcode[1]
      orig == Join(Slice(original_words, opcode[2], opcode[3]))
      sugg == Join(Slice(suggested_words, opcode[4], opcode[5]))
  IN IF tag = "replace"
     THEN [type |-> "change", original |-> orig, suggested |-> sugg]
     ELSE IF tag = "delete"
     THEN [type |-> "deletion", original |-> orig, suggested |-> <<>>]
     ELSE IF tag = "insert"
     THEN [type |-> "insertion", original |-> sugg, suggested |-> sugg]
     ELSE [type |-> "equal", text |-> orig]

\* the dict get_word_diffs appends for one opcode
Change(original_words, suggested_words, opcode) ==
  LET tag == opcode[1]
      orig == Join(Slice(original_words, opcode[2], opcode[3]))
      sugg == Join(Slice(suggested_words, opcode[4], opcode[5]))
  IN IF tag = "replace"
     THEN [type |-> "change", original |-> orig, suggested |-> sugg]
     ELSE IF tag = "delete"
     THEN [type |-> "deletion", original |-> orig, suggested |-> <<>>]
     ELSE IF tag = "insert"
     THEN [type |-> "insertion", original |-> <<>>, suggested |-> sugg]
     ELSE [type |-> "equal", text |-> orig]

get_word_diffs(original, suggested) ==
  LET original_words == split_into_words(original)
      suggested_words == split_into_words(suggested)
      opcodes == get_opcodes(original_words, suggested_words)
  IN [n \in 1..Len(opcodes) |->
        Change(original_words, suggested_words, opcodes[n])]


(***************************************************************************)
(* The state.                                                              *)
(***************************************************************************)
VARIABLES
  translation_memory,   \* st.session_state.translation_memory
  clock,                \* what datetime.now() reads next
  lastOp,               \* the last operation: its arguments and what it returned
  original_text,        \* the original handed to get_word_diffs
  suggested_text,       \* the suggested text handed to get_word_diffs
  changes,              \* the list get_word_diffs returned
  decisions,            \* the reviewer's decision per change
  final_text,           \* st.session_state.final_text, the merged text
  diff_pc,              \* "idle", "input" (texts given) or "review" (diff computed)
  v_original,           \* the arguments of validate_translation
  v_translated,
  v_direction,
  issues,               \* the list validate_translation returned
  v_pc                  \* "idle", "input" or "done"

cacheVars == <<translation_memory, clock, lastOp>>
diffVars == <<original_text, suggested_text, changes, decisions, final_text, diff_pc>>
validVars == <<v_original, v_translated, v_direction, issues, v_pc>>
vars == <<cacheVars, diffVars, validVars>>

\* the texts, translations and answers of the external call the model draws from
Texts == {<<" ">>, <<"a">>, <<" ", "A", "\n">>, <<"a", " ", "b">>}
Translations == {<<>>, <<"x">>, <<"y">>}
ApiOutcomes ==
  {[kind |-> "response", status |-> 200, body |-> Some(t), detail |-> "ok"] :
      t \in {<<>>, <<"x">>}}
  \cup {[kind |-> "response", status |-> 200, body |-> None, detail |-> "bad body"],
        [kind |-> "response", status |-> 429, body |-> None, detail |-> "rate limited"],
        [kind |-> "raise", status |-> 0, body |-> None, detail |-> "connection refused"]}

NoApi == [kind |-> "none", status |-> 0, body |-> None, detail |-> "none"]

\* present: whether the key of (text, direction) was in the memory before the
\* operation; size: len(translation_memory) before it (src/app.py:455)
NoOp ==
  [op |-> "none", text |-> <<>>, translated |-> <<>>, direction |-> NoToEn,
   present |-> FALSE, size |-> 0, ret |-> "None", api |-> NoApi, posts |-> 0,
   response |-> NoResponse]

CacheInit ==
  /\ translation_memory = <<>>
  /\ clock = 0
  /\ lastOp = NoOp

\* no review under way (final_text as initialize_app sets it)
DiffIdle ==
  /\ original_text = <<>>
  /\ suggested_text = <<>>
  /\ changes = <<>>
  /\ decisions = <<>>
  /\ final_text = <<>>
  /\ diff_pc = "idle"

\* no validation under way
ValidIdle ==
  /\ v_original = <<>>
  /\ v_translated = <<>>
  /\ v_direction = NoToEn
  /\ issues = <<>>
  /\ v_pc = "idle"

Init == CacheInit /\ DiffIdle /\ ValidIdle

\* a call of update_translation_memory(original, translated, direction)
Put(original, translated, direction) ==
  LET r == update_translation_memory(translation_memory, original, translated,
                                     direction, clock)
  IN /\ clock < MaxClock
     /\ translation_memory' = r.memory
     /\ clock' = clock + 1
     /\ lastOp' = [NoOp EXCEPT !.op = "put", !.text = original,
                     !.translated = translated, !.direction = direction,
                     !.present = (MemoryKey(original, direction)
                                    \in DOMAIN translation_memory),
                     !.size = Cardinality(DOMAIN translation_memory),
                     !.ret = r.ret]
     /\ UNCHANGED <<diffVars, validVars>>

\* a clear that keeps the entries of one direction
ClearOneDirection ==
  /\ clock < MaxClock
  /\ translation_memory' =
       [k \in {k \in DOMAIN translation_memory :
                 translation_memory[k].direction = EnToNo} |->
          translation_memory[k]]
  /\ clock' = clock + 1
  /\ lastOp' = [NoOp EXCEPT !.op = "clear",
                  !.size = Cardinality(DOMAIN translation_memory)]
  /\ UNCHANGED <<diffVars, validVars>>

\* the sidebar's "Clear Translation Memory" button (src/app.py:456-457)
Clear ==
  /\ clock < MaxClock
  /\ translation_memory' = <<>>
  /\ clock' = clock + 1
  /\ lastOp' = [NoOp EXCEPT !.op = "clear",
                  !.size = Cardinality(DOMAIN translation_memory)]
  /\ UNCHANGED <<diffVars, validVars>>

\* a call of translate_with_context(text, direction, REFERENCE_SITES)
Translate(text, direction, api) ==
  LET r == translate_with_context(translation_memory, text, direction, api, clock)
  IN /\ clock < MaxClock
     /\ translation_memory' = r.memory
     /\ clock' = clock + 1
     /\ lastOp' = [NoOp EXCEPT !.op = "translate", !.text = text,
                     !.direction = direction,
                     !.present = (MemoryKey(text, direction)
                                    \in DOMAIN translation_memory),
                     !.size = Cardinality(DOMAIN translation_memory),
                     !.api = api, !.posts = r.posts, !.response = r.response]
     /\ UNCHANGED <<diffVars, validVars>>

Next ==
  \/ \E x \in Texts, t \in Translations, d \in Directions : Put(x, t, d)
  \/ Clear
  \/ \E x \in Texts, d \in Directions, api \in ApiOutcomes : Translate(x, d, api)

Spec == Init /\ [][Next]_vars

(***************************************************************************)
(* A review: get_word_diffs on two texts, then the reviewer's decisions.   *)
(* render_review_ui, which main calls (src/app.py:518), is not among the   *)
(* sources; the decisions and the merge follow the specification's         *)
(* ReviewDecision and apply_decision.                                      *)
(***************************************************************************)
\* longest text of a review
MaxDiffLen == 4
DiffChars == {"a", "b", " "}
DiffTexts == StringsUpTo(DiffChars, MaxDiffLen)

DiffInit ==
  /\ CacheInit
  /\ ValidIdle
  /\ original_text \in DiffTexts
  /\ suggested_text \in DiffTexts
  /\ changes = <<>>
  /\ decisions = <<>>
  /\ final_text = <<>>
  /\ diff_pc = "input"

\* the span an op contributes under a decision: the suggested span when
\* accepted, the original span when rejected or pending; an equal op its text
ResolvedSpan(op, decision) ==
  IF op.type = "equal" THEN op.text
  ELSE IF decision = "accepted" THEN op.suggested
  ELSE op.original

\* the merged text: the resolved spans, concatenated in op order
RECURSIVE MergedText(_, _)
MergedText(ops, decs) ==
  IF ops = <<>> THEN <<>>
  ELSE ResolvedSpan(Head(ops), Head(decs)) \o MergedText(Tail(ops), Tail(decs))

\* changes = get_word_diffs(original, suggested); every op starts pending
GetWordDiffs ==
  /\ diff_pc = "input"
  /\ changes' = get_word_diffs(original_text, suggested_text)
  /\ decisions' = [n \in 1..Len(changes') |-> "pending"]
  /\ diff_pc' = "review"
  /\ UNCHANGED <<original_text, suggested_text, final_text, cacheVars, validVars>>

\* apply_decision(ops, index, decision): one decision per op, then the merge
ApplyDecision(index, decision) ==
  /\ diff_pc = "review"
  /\ index \in 1..Len(changes)
  /\ decisions[index] = "pending"
  /\ decisions' = [decisions EXCEPT ![index] = decision]
  /\ final_text' = MergedText(changes, decisions')
  /\ UNCHANGED <<original_text, suggested_text, changes, diff_pc, cacheVars,
                 validVars>>

DiffNext ==
  \/ GetWordDiffs
  \/ \E index \in 1..Len(changes), decision \in {"accepted", "rejected"} :
        ApplyDecision(index, decision)

DiffSpec == DiffInit /\ [][DiffNext]_vars

(***************************************************************************)
(* The translation memory's claims, checked under Spec.                    *)
(***************************************************************************)
\* what the claims call the normalized text: trimmed, then lower-cased
Normalized(text) == Lower(Strip(text))
SameKey(x, d, y, e) == Normalized(x) = Normalized(y) /\ d = e

\* get(x, d) in the current and in the next state
Get(x, d) == get_from_translation_memory(translation_memory, x, d)
GetNext(x, d) == get_from_translation_memory(translation_memory', x, d)

\* C1: first-write-wins.  In every step that is not a clear, every entry of
\* the store stays as it is (translation, timestamp and direction); a put on
\* a key the store lacks makes get return that put's translation for every
\* (x, d) of that key, and adds that one entry only; a put on a key the store
\* holds changes nothing, so get keeps returning the first put's translation.
C1_Step ==
  LET op == lastOp'
      key == Normalized(op.text) \o <<"_">> \o op.direction
  IN /\ op.op # "clear" =>
          \A k \in DOMAIN translation_memory :
             k \in DOMAIN translation_memory'
               /\ translation_memory'[k] = translation_memory[k]
     /\ op.op = "put" =>
          /\ \A x \in Texts, d \in Directions :
                GetNext(x, d) =
                  IF Get(x, d).some THEN Get(x, d)
                  ELSE IF SameKey(x, d, op.text, op.direction)
                       THEN Some(op.translated)
                       ELSE None
          /\ DOMAIN translation_memory' = DOMAIN translation_memory \cup {key}
          /\ translation_memory'[key].timestamp =
               IF key \in DOMAIN translation_memory
               THEN translation_memory[key].timestamp
               ELSE clock

C1_FirstWriteWins == [][C1_Step]_vars

\* a second put on a key, with another translation, has happened and get
\* still gives the first one
C1_Witness ==
  /\ lastOp.op = "put"
  /\ lastOp.present
  /\ Get(lastOp.text, lastOp.direction).some
  /\ Get(lastOp.text, lastOp.direction).val # lastOp.translated

\* C2: case and whitespace insensitivity.  After put(a, t, d) on a store with
\* no entry for the key, get(b, d) returns t for every text b that equals a
\* after trimming and lower-casing.
C2_CaseWhitespaceInsensitive ==
  (lastOp.op = "put" /\ ~lastOp.present) =>
     \A b \in Texts :
        Normalized(b) = Normalized(lastOp.text) =>
           Get(b, lastOp.direction) = Some(lastOp.translated)

\* put(" A\n", t, d) has inserted, and get("a", d) finds it
C2_Witness ==
  /\ lastOp.op = "put"
  /\ ~lastOp.present
  /\ lastOp.text = <<" ", "A", "\n">>
  /\ Get(<<"a">>, lastOp.direction) = Some(lastOp.translated)

\* C6, as the claim states it: the value put returns tells an insert from a
\* no-op, so of two puts in a row of which one inserted and the other did
\* not, the returned values differ.
C6_ReturnTellsInsert ==
  [][(lastOp.op = "put" /\ lastOp'.op = "put"
        /\ lastOp.present # lastOp'.present)
       => lastOp.ret # lastOp'.ret]_vars

\* C6, amended: put returns None whether it inserted or not; the outcome
\* shows in the store only: the entry of the key carries this put's
\* translation and timestamp exactly when the key was absent before.
C6_PutReturnsNone ==
  lastOp.op = "put" =>
     LET key == Normalized(lastOp.text) \o <<"_">> \o lastOp.direction
     IN /\ lastOp.ret = "None"
        /\ key \in DOMAIN translation_memory
        /\ ~lastOp.present <=> translation_memory[key].timestamp = clock - 1
        /\ ~lastOp.present => translation_memory[key].translation = lastOp.translated

\* a put that found its key present has returned
C6_Witness ==
  /\ lastOp.op = "put"
  /\ lastOp.present
  /\ lastOp.ret = "None"

\* C7: clear empties the whole store: right after a clear get returns absent
\* for every text and direction, and the put that follows a clear inserts:
\* get returns its translation, under its timestamp.
C7_Step ==
  /\ lastOp'.op = "clear" =>
        /\ translation_memory' = <<>>
        /\ \A x \in Texts, d \in Directions : GetNext(x, d) = None
  /\ (lastOp.op = "clear" /\ lastOp'.op = "put") =>
        LET key == Normalized(lastOp'.text) \o <<"_">> \o lastOp'.direction
        IN /\ GetNext(lastOp'.text, lastOp'.direction) = Some(lastOp'.translated)
           /\ translation_memory'[key].timestamp = clock
           /\ DOMAIN translation_memory' = {key}

C7_ClearEmptiesStore == [][C7_Step]_vars

\* a clear of a store that held entries of both directions
C7_Witness ==
  /\ lastOp.op = "clear"
  /\ lastOp.size >= 2
  /\ translation_memory = <<>>

\* C8: a failed external call (a non-200 status or an exception) gives an
\* error result with a status code and a message, is made once, and leaves
\* the translation memory as it was.
C8_Step ==
  LET op == lastOp'
  IN (op.op = "translate" /\ op.posts >= 1
        /\ (op.api.kind = "raise" \/ op.api.status # 200))
      => /\ op.response.error.some
         /\ ~op.response.content.some
         /\ op.response.status_code \in Int
         /\ op.response.status_code # 200
         /\ op.response.status_code =
              (IF op.api.kind = "raise" THEN 500 ELSE op.api.status)
         /\ op.posts = 1
         /\ translation_memory' = translation_memory

C8_FailureLeavesMemory == [][C8_Step]_vars

\* a request failed on a memory that held entries
C8_Witness ==
  /\ lastOp.op = "translate"
  /\ lastOp.posts = 1
  /\ lastOp.api.kind \in {"raise", "response"}
  /\ (lastOp.api.kind = "raise" \/ lastOp.api.status # 200)
  /\ lastOp.response.error.some
  /\ translation_memory # <<>>

(***************************************************************************)
(* The claims about get_word_diffs and the merge, checked under DiffSpec.  *)
(***************************************************************************)
\* the spans of an op, as the claims name them
OriginalSpan(op) == IF op.type = "equal" THEN op.text ELSE op.original
SuggestedSpan(op) == IF op.type = "equal" THEN op.text ELSE op.suggested

\* the concatenation, in order, of the original and of the suggested spans
OriginalSpans(ops) == Join([n \in 1..Len(ops) |-> OriginalSpan(ops[n])])
SuggestedSpans(ops) == Join([n \in 1..Len(ops) |-> SuggestedSpan(ops[n])])

\* C3: reconstruction.  The original spans of the ops of
\* compute_diff(A, B), concatenated in order, give A; the suggested spans of
\* the non-equal ops and the texts of the equal ops give B.
C3_Reconstruction ==
  diff_pc = "review" =>
     /\ OriginalSpans(changes) = original_text
     /\ SuggestedSpans(changes) = suggested_text

\* a diff of two different texts with equal and non-equal ops
C3_Witness ==
  /\ diff_pc = "review"
  /\ Len(changes) >= 3
  /\ \E n \in 1..Len(changes) : changes[n].type = "change"
  /\ \E n \in 1..Len(changes) : changes[n].type = "equal"

\* C4, as the claim states it: compute_diff(A, A) is exactly one equal op
\* whose text is A, for every A, the empty string included.
C4_OneEqualOpAlways ==
  (diff_pc = "review" /\ original_text = suggested_text) =>
     changes = <<[type |-> "equal", text |-> original_text]>>

\* C4, amended: for a non-empty A (also one of whitespace only)
\* compute_diff(A, A) is exactly one equal op whose text is A; for the empty
\* string it is no op at all.
C4_OneEqualOpUnlessEmpty ==
  (diff_pc = "review" /\ original_text = suggested_text) =>
     changes = IF original_text = <<>> THEN <<>>
               ELSE <<[type |-> "equal", text |-> original_text]>>

\* a text of several tokens, one of them repeated, diffed against itself
C4_Witness ==
  /\ diff_pc = "review"
  /\ original_text = suggested_text
  /\ original_text = <<"a", " ", "a">>
  /\ Len(changes) = 1

\* C5: when exactly one of the two texts is empty the diff is one op: a
\* deletion whose original span is all of original (suggested empty), or an
\* insertion whose suggested span is all of suggested (original empty).
C5_EmptySideDegenerates ==
  diff_pc = "review" =>
     /\ (original_text # <<>> /\ suggested_text = <<>>) =>
           changes = <<[type |-> "deletion", original |-> original_text,
                        suggested |-> <<>>]>>
     /\ (original_text = <<>> /\ suggested_text # <<>>) =>
           changes = <<[type |-> "insertion", original |-> <<>>,
                        suggested |-> suggested_text]>>

\* a text of several tokens diffed against the empty text
C5_Witness ==
  /\ diff_pc = "review"
  /\ suggested_text = <<>>
  /\ Len(split_into_words(original_text)) >= 3
  /\ Len(changes) = 1
  /\ changes[1].type = "deletion"

\* C10: the merge goes by op position.  The merged text is the
\* concatenation, in op order, of the suggested span of each accepted op and
\* the original span of each rejected or pending op (an equal op gives its
\* text); with every non-equal op accepted it is suggested, with none accepted
\* it is original.
C10_Span(n) ==
  IF changes[n].type = "equal" THEN changes[n].text
  ELSE IF decisions[n] = "accepted" THEN changes[n].suggested
  ELSE changes[n].original

MaxFragments == 3

OriginalFragments ==
  {<<"k", "l", "i", "m", "a", "e", "n", "d", "r", "i", "n", "g", "e", "r", " ">>,
   <<"K", "a", "r", "b", "o", "n", "b", "u", "d", "s", "j", "e", "t", "t", " ">>,
   <<"o", "g", " ">>,
   <<" ">>}

\* "U+00E5" is the letter a with ring above, "U+00DC" the letter U with
\* diaeresis
TranslatedFragments ==
  {<<"C", "l", "i", "m", "a", "t", "e", " ", "c", "h", "a", "n", "g", "e", " ">>,
   <<"c", "a", "r", "b", "o", "n", " ", "b", "u", "d", "g", "e", "t", " ">>,
   <<"x", " ">>,
   <<"U+00E5">>,
   <<"U+00DC">>}

\* the concatenations of at most n fragments
TextsOf(fragments, n) ==
  {Join(fs) : fs \in UNION {[1..k -> fragments] : k \in 0..n}}

ValidInit ==
  /\ CacheInit
  /\ DiffIdle
  /\ v_original \in TextsOf(OriginalFragments, MaxFragments)
  /\ v_translated \in TextsOf(TranslatedFragments, MaxFragments)
  /\ v_direction \in Directions
  /\ issues = <<>>
  /\ v_pc = "input"

ValidateTranslation ==
  /\ v_pc = "input"
  /\ issues' = validate_translation(v_original, v_translated, v_direction)
  /\ v_pc' = "done"
  /\ UNCHANGED <<v_original, v_translated, v_direction, cacheVars, diffVars>>

ValidNext == ValidateTranslation

ValidSpec == ValidInit /\ [][ValidNext]_vars

(***************************************************************************)
(* The claim about validate_translation, checked under ValidSpec.          *)
(***************************************************************************)
\* the letters of the source language the third check is about (what the
\* code's comment and message call Norwegian characters):
\* U+00E6 U+00F8 U+00E5 U+00C6 U+00D8 U+00C5
SourceAlphabet ==
  {"U+00E6", "U+00F8", "U+00E5", "U+00C6", "U+00D8", "U+00C5"}

\* the glossary terms that occur in original, case-insensitively, while
\* their rendering does not occur in translated, in glossary order
C9_MissingTerms ==
  SelectSeq(technical_terms,
            LAMBDA e : /\ Contains(Lower(e.term), Lower(v_original))
                       /\ ~Contains(Lower(e.english), Lower(v_translated)))

C9_TermPart ==
  IF v_direction = NoToEn
  THEN [n \in 1..Len(C9_MissingTerms) |-> TermIssue(C9_MissingTerms[n])]
  ELSE <<>>

C9_LengthPart ==
  IF 2 * WordCount(v_translated) < WordCount(v_original)
  THEN <<TooShortIssue>> ELSE <<>>

\* C9: the three checks are independent and in fixed order: the result is
\* the technical-term issues (source-to-target only, in glossary order), then
\* the length issue iff word_count(translated) < 0.5 * word_count(original),
\* then the leftover-character issue iff a character of the source alphabet
\* occurs in translated (source-to-target only).
C9_ValidateChecks ==
  v_pc = "done" =>
     issues = C9_TermPart \o C9_LengthPart
                \o (IF v_direction = NoToEn
                       /\ \E i \in 1..Len(v_translated) :
                             v_translated[i] \in SourceAlphabet
                    THEN <<NorwegianCharsIssue>> ELSE <<>>)

\* what the code does hold to: the same three parts in the same order, the
\* third one on the characters of norwegian_chars as the file stores them
C9_ChecksOnStoredCharacters ==
  v_pc = "done" =>
     issues = C9_TermPart \o C9_LengthPart
                \o (IF v_direction = NoToEn
                       /\ \E i \in 1..Len(v_translated) :
                             v_translated[i] \in norwegian_chars
                    THEN <<NorwegianCharsIssue>> ELSE <<>>)

\* a validation that reported all three kinds of issue
C9_AllThree ==
  /\ v_pc = "done"
  /\ Len(issues) >= 3
  /\ issues[1].type = "technical_term"
  /\ issues[Len(issues)] = NorwegianCharsIssue
  /\ issues[Len(issues) - 1] = TooShortIssue

(***************************************************************************)
(* The claim about the regions behind the ops, checked under DiffSpec.     *)
(***************************************************************************)
\* the two token sequences of the review and the opcodes behind its ops
C11_a == split_into_words(original_text)
C11_b == split_into_words(suggested_text)
C11_opcodes == get_opcodes(C11_a, C11_b)

Max2(x, y) == IF x >= y THEN x ELSE y
Min2(x, y) == IF x <= y THEN x ELSE y

\* the length of a longest common subsequence of a and b: the most tokens any
\* alignment keeps equal
LcsLength(a, b) ==
  LET L[i \in 0..Len(a), j \in 0..Len(b)] ==
        IF i = 0 \/ j = 0 THEN 0
        ELSE IF a[i] = b[j] THEN L[i - 1, j - 1] + 1
        ELSE Max2(L[i - 1, j], L[i, j - 1])
  IN L[Len(a), Len(b)]

\* the edit distance of a and b with a replaced token counted once
EditDistance(a, b) ==
  LET D[i \in 0..Len(a), j \in 0..Len(b)] ==
        IF i = 0 THEN j
        ELSE IF j = 0 THEN i
        ELSE Min2(D[i - 1, j - 1] + (IF a[i] = b[j] THEN 0 ELSE 1),
                  Min2(D[i - 1, j] + 1, D[i, j - 1] + 1))
  IN D[Len(a), Len(b)]

\* the length of a longest run of tokens that a and b have in common
LongestCommonRun(a, b) ==
  LET runs == {k \in 0..Min2(Len(a), Len(b)) :
                 \E i \in 0..(Len(a) - k), j \in 0..(Len(b) - k) :
                    Slice(a, i, i + k) = Slice(b, j, j + k)}
  IN CHOOSE k \in runs : \A m \in runs : m <= k

\* the tokens the non-equal ops change: those of both sequences that lie in
\* a non-equal region, and the same with a replaced token counted once
RECURSIVE ChangedBothSides(_)
ChangedBothSides(ops) ==
  IF ops = <<>> THEN 0
  ELSE (IF Head(ops)[1] = "equal" THEN 0
        ELSE (Head(ops)[3] - Head(ops)[2]) + (Head(ops)[5] - Head(ops)[4]))
       + ChangedBothSides(Tail(ops))

RECURSIVE ChangedOnce(_)
ChangedOnce(ops) ==
  IF ops = <<>> THEN 0
  ELSE (IF Head(ops)[1] = "equal" THEN 0
        ELSE Max2(Head(ops)[3] - Head(ops)[2], Head(ops)[5] - Head(ops)[4]))
       + ChangedOnce(Tail(ops))

\* the regions ops of the token sequences a and b are in left-to-right
\* order, do not overlap, cover both sequences, and are the regions of the
\* ops get_word_diffs returned
C11_OrderedCover(a, b, ops) ==
  /\ Len(changes) = Len(ops)
  /\ \A n \in 1..Len(ops) :
        LET op == ops[n]
        IN /\ op[2] = (IF n = 1 THEN 0 ELSE ops[n - 1][3])
           /\ op[4] = (IF n = 1 THEN 0 ELSE ops[n - 1][5])
           /\ op[2] <= op[3] /\ op[4] <= op[5]
           /\ op[2] < op[3] \/ op[4] < op[5]
           /\ OriginalSpan(changes[n]) = Join(Slice(a, op[2], op[3]))
           /\ SuggestedSpan(changes[n]) = Join(Slice(b, op[4], op[5]))
           /\ (changes[n].type = "equal") = (op[1] = "equal")
           /\ op[1] = "equal" =>
                 Slice(a, op[2], op[3]) = Slice(b, op[4], op[5])
           /\ n > 1 => (op[1] = "equal") # (ops[n - 1][1] = "equal")
  /\ (IF ops = <<>> THEN 0 ELSE ops[Len(ops)][3]) = Len(a)
  /\ (IF ops = <<>> THEN 0 ELSE ops[Len(ops)][5]) = Len(b)

\* the diff has been computed and no decision taken yet
C11_Computed ==
  diff_pc = "review" /\ \A n \in 1..Len(decisions) : decisions[n] = "pending"

\* C11, as the claim states it: the regions are ordered, disjoint and
\* covering, and the script is of minimal edit distance: no alignment changes
\* fewer tokens than the non-equal ops do (counting the tokens of both
\* sequences, or counting a replaced token once).
C11_MinimalEditScript ==
  C11_Computed =>
     LET a == C11_a
         b == C11_b
         ops == get_opcodes(a, b)
     IN /\ C11_OrderedCover(a, b, ops)
        /\ \/ ChangedBothSides(ops) = Len(a) + Len(b) - 2 * LcsLength(a, b)
           \/ ChangedOnce(ops) = EditDistance(a, b)

\* C11, amended: the regions are in left-to-right order, do not overlap and
\* cover both token sequences; equal and non-equal regions alternate and an
\* equal region holds the same tokens on both sides.  The script need not be
\* minimal: it never changes fewer tokens than a minimal one and, when the
\* suggested text has fewer than 200 tokens (no token is dropped as popular),
\* keeps within one equal region a longest run of tokens the two sequences
\* have in common.
C11_OrderedCoverLongestRun ==
  C11_Computed =>
     LET a == C11_a
         b == C11_b
         ops == get_opcodes(a, b)
         run == LongestCommonRun(a, b)
     IN /\ C11_OrderedCover(a, b, ops)
        /\ ChangedBothSides(ops) >= Len(a) + Len(b) - 2 * LcsLength(a, b)
        /\ ChangedOnce(ops) >= EditDistance(a, b)
        /\ (Len(b) < 200 /\ run > 0) =>
             \E n \in 1..Len(ops) :
                ops[n][1] = "equal" /\ ops[n][3] - ops[n][2] >= run

\* " a a" against " b a": the ops insert two tokens and delete two, where
\* replacing one token would do
C11_Witness ==
  /\ diff_pc = "review"
  /\ original_text = <<" ", "a", " ", "a">>
  /\ suggested_text = <<" ", "b", " ", "a">>
  /\ Len(changes) = 3
  /\ ChangedOnce(C11_opcodes) = 4
  /\ EditDistance(C11_a, C11_b) = 1

(***************************************************************************)
(* The claim about the cache lookup of translate_with_context, checked     *)
(* under Spec.                                                             *)
(***************************************************************************)
\* C12: the cache is consulted before the external call.  A request whose
\* normalized (text, direction) has an entry in the translation memory,
\* whatever translation the entry stores, returns exactly the stored
\* translation and makes no external call; so every successful result equals
\* get(text, direction) at return time.
C12_Step ==
  LET op == lastOp'
      stored == Get(op.text, op.direction)
  IN op.op = "translate" =>
        /\ stored.some =>
              /\ op.posts = 0
              /\ op.response.status_code = 200
              /\ op.response.content = stored
        /\ op.response.content.some =>
              op.response.content = GetNext(op.text, op.direction)

C12_CacheHitReturnsStored == [][C12_Step]_vars

\* what the code does hold to: an entry that stores a non-empty translation
\* is returned without an external call, and a request that finds no entry
\* and succeeds returns what it has just stored
C12_NonEmptyHitStep ==
  LET op == lastOp'
      stored == Get(op.text, op.direction)
  IN op.op = "translate" =>
        /\ (stored.some /\ stored.val # <<>>) =>
              /\ op.posts = 0
              /\ op.response.status_code = 200
              /\ op.response.content = stored
              /\ translation_memory' = translation_memory
        /\ (~stored.some /\ op.response.content.some) =>
              op.response.content = GetNext(op.text, op.direction)

C12_NonEmptyHitReturnsStored == [][C12_NonEmptyHitStep]_vars

\* a request found an entry that stores the empty translation, made the
\* external call and returned its text
C12_EmptyEntryBypassed ==
  /\ lastOp.op = "translate"
  /\ lastOp.present
  /\ lastOp.posts = 1
  /\ Get(lastOp.text, lastOp.direction) = Some(<<>>)
  /\ lastOp.response.content.some
  /\ lastOp.response.content.val # <<>>

====
